---- MODULE Spec2Model ----
(***************************************************************************)
(* Model of compliance_agent.py: the screening pipeline                    *)
(* (perform_screening), the session state (history, current_result) and    *)
(* the two handlers that change it (Start Screening, Recent Screenings).   *)
(*                                                                         *)
(* Representation.                                                         *)
(*  - A Python str is a sequence of symbols.  Prose is one symbol per      *)
(*    character; a fixed literal of the program is one symbol; in the      *)
(*    agent's text a JSON member "key": value is one symbol as well        *)
(*    (MemberTable gives its key and value), while "{", "}", the opening   *)
(*    of the findings array and "]" are symbols of their own, so the       *)
(*    brace scan and the nesting are computed, not assumed.                *)
(*  - A Python dict is a function whose DOMAIN is the set of its keys;     *)
(*    an absent key is absent from the DOMAIN.                             *)
(*  - None / a value is <<>> / <<v>>.                                      *)
(*  - datetime.now() is the counter now, advanced at every screening.      *)
(***************************************************************************)
EXTENDS Integers, Sequences, FiniteSets, TLC

\* ---- program constants ----
HistoryLimit == 10
RecentShown == 5
SummaryLimit == 300
MaxTokens == 4000

\* ---- bounds of the model ----
MaxScreenings == 15
MaxRuns == 2
MaxLen == 4

VARIABLES history, current_result, now, outbox, call

vars == <<history, current_result, now, outbox, call>>

Min(a, b) == IF a < b THEN a ELSE b

\* ---- Python str / list primitives ----

\* s[a:b] for 0 <= a
Slice(s, a, b) == SubSeq(s, a + 1, Min(b, Len(s)))

\* s.find(c): index (from 0) of the first occurrence, -1 when there is none
Find(s, c) ==
    IF \E i \in 1..Len(s) : s[i] = c
    THEN (CHOOSE i \in 1..Len(s) : s[i] = c /\ \A j \in 1..(i - 1) : s[j] # c) - 1
    ELSE -1

\* s.rfind(c): index (from 0) of the last occurrence, -1 when there is none
RFind(s, c) ==
    IF \E i \in 1..Len(s) : s[i] = c
    THEN (CHOOSE i \in 1..Len(s) : s[i] = c /\ \A j \in (i + 1)..Len(s) : s[j] # c) - 1
    ELSE -1

\* a slip: the new entry is appended at the end
InsertLast(l, x) == l \o <<x>>

\* l.insert(0, x)
Insert0(l, x) == <<x>> \o l

\* ---- dicts ----

EmptyDict == <<>>

\* d[k] = v
Put(d, k, v) == [x \in (DOMAIN d) \cup {k} |-> IF x = k THEN v ELSE d[x]]

\* ---- the agent's text: JSON members ----

\* the members an agent text of the model may carry, each with its key and value
MemberTable ==
    [tok \in {"riskLevel:LOW", "riskLevel:HIGH", "riskLevel:CRITICAL",
              "summary:", "summary:Minor complaint found",
              "recommendations:[]", "recommendations:[Monitor periodically]",
              "entity:Evil Corp", "searchType:deep", "timestamp:1999",
              "severity:HIGH", "severity:SEVERE", "category:Fraud"} |->
        CASE tok = "riskLevel:LOW" -> [k |-> "riskLevel", v |-> "LOW"]
          [] tok = "riskLevel:HIGH" -> [k |-> "riskLevel", v |-> "HIGH"]
          [] tok = "riskLevel:CRITICAL" -> [k |-> "riskLevel", v |-> "CRITICAL"]
          [] tok = "summary:" -> [k |-> "summary", v |-> <<>>]
          [] tok = "summary:Minor complaint found" ->
                 [k |-> "summary", v |-> <<"Minor complaint found">>]
          [] tok = "recommendations:[]" -> [k |-> "recommendations", v |-> <<>>]
          [] tok = "recommendations:[Monitor periodically]" ->
                 [k |-> "recommendations", v |-> <<"Monitor periodically">>]
          [] tok = "entity:Evil Corp" -> [k |-> "entity", v |-> <<"E", "v">>]
          [] tok = "searchType:deep" -> [k |-> "searchType", v |-> "deep"]
          [] tok = "timestamp:1999" -> [k |-> "timestamp", v |-> 0]
          [] tok = "severity:HIGH" -> [k |-> "severity", v |-> "HIGH"]
          [] tok = "severity:SEVERE" -> [k |-> "severity", v |-> "SEVERE"]
          [] tok = "category:Fraud" -> [k |-> "category", v |-> "Fraud"]]

IsMember(tok) == tok \in DOMAIN MemberTable

FindingsOpen == "findings:["

ParseFail(i) == [ok |-> FALSE, next |-> i, val |-> EmptyDict]

RECURSIVE ParseMembers(_, _, _)
RECURSIVE ParseList(_, _, _)

\* the members of an object from position i (just after its "{") to its "}"
ParseMembers(s, i, d) ==
    IF i > Len(s) THEN ParseFail(i)
    ELSE IF s[i] = "}" THEN [ok |-> TRUE, next |-> i + 1, val |-> d]
    ELSE IF IsMember(s[i])
         THEN ParseMembers(s, i + 1, Put(d, MemberTable[s[i]].k, MemberTable[s[i]].v))
    ELSE IF s[i] = FindingsOpen
         THEN LET l == ParseList(s, i + 1, <<>>)
              IN  IF l.ok THEN ParseMembers(s, l.next, Put(d, "findings", l.val))
                  ELSE ParseFail(i)
    ELSE ParseFail(i)

\* the objects of an array from position i (just after its "[") to its "]"
ParseList(s, i, acc) ==
    IF i > Len(s) THEN ParseFail(i)
    ELSE IF s[i] = "]" THEN [ok |-> TRUE, next |-> i + 1, val |-> acc]
    ELSE IF s[i] = "{"
         THEN LET o == ParseMembers(s, i + 1, EmptyDict)
              IN  IF o.ok THEN ParseList(s, o.next, Append(acc, o.val))
                  ELSE ParseFail(i)
    ELSE ParseFail(i)

\* json.loads(s): ok is FALSE where json.loads raises
json_loads(s) ==
    IF s = <<>> \/ s[1] # "{" THEN ParseFail(1)
    ELSE LET o == ParseMembers(s, 2, EmptyDict)
         IN  IF o.ok /\ o.next = Len(s) + 1 THEN o ELSE ParseFail(o.next)

\* ---- perform_screening ----

SearchTypes == {"comprehensive", "basic"}

\* the prompt; search_context is computed and the f-string does not use it
BuildPrompt(entity, search_type) ==
    LET search_context ==
            IF search_type = "comprehensive"
            THEN <<"controversy scandal investigation lawsuit sanction fine penalty fraud">>
            ELSE <<"negative news">>
    IN  <<"You are a compliance screening AI agent. Search for negative news, controversies, legal issues, sanctions, and regulatory problems related to: ">>
        \o entity
        \o <<"Please search comprehensively and then provide a structured analysis in JSON format with the following structure: ...",
             "Search thoroughly and provide accurate, factual information only. If no significant negative news is found, indicate CLEAR risk level.">>

\* the arguments of client.messages.create
CreateRequest(prompt) ==
    [model |-> "claude-sonnet-4-20250514",
     max_tokens |-> MaxTokens,
     tools |-> <<"web_search">>,
     prompt |-> prompt]

\* a slip: the request is sent a second time
SendRequestsTwice(prompt) == <<CreateRequest(prompt), CreateRequest(prompt)>>

\* the calls of client.messages.create one invocation makes
SendRequests(prompt) == <<CreateRequest(prompt)>>

RECURSIVE ConcatText(_)
\* full_response: the text of the text blocks, in order
ConcatText(content) ==
    IF content = <<>> THEN <<>>
    ELSE (IF Head(content).type = "text" THEN Head(content).text ELSE <<>>)
         \o ConcatText(Tail(content))

\* json_start != -1 and json_end > json_start
HasJsonSpan(full_response) ==
    LET json_start == Find(full_response, "{")
        json_end == RFind(full_response, "}") + 1
    IN  json_start # -1 /\ json_end > json_start

\* full_response[json_start:json_end]
JsonSpan(full_response) ==
    Slice(full_response, Find(full_response, "{"), RFind(full_response, "}") + 1)

\* a slip: the text is used as it is, also when it is empty
FallbackNoPlaceholder(full_response, t) ==
    [riskLevel |-> "MEDIUM",
     summary |-> Slice(full_response, 0, SummaryLimit),
     findings |-> << [category |-> "General",
                      severity |-> "MEDIUM",
                      title |-> "Analysis Results",
                      description |-> full_response,
                      date |-> t,
                      source |-> "AI Analysis"] >>,
     recommendations |-> <<"Review the detailed findings", "Conduct further due diligence">>]

\* the except branch of the inner try
Fallback(full_response, t) ==
    [riskLevel |-> "MEDIUM",
     summary |-> IF full_response # <<>> THEN Slice(full_response, 0, SummaryLimit)
                 ELSE <<"Unable to parse response">>,
     findings |-> << [category |-> "General",
                      severity |-> "MEDIUM",
                      title |-> "Analysis Results",
                      description |-> IF full_response # <<>> THEN full_response
                                      ELSE <<"No detailed findings available">>,
                      date |-> t,
                      source |-> "AI Analysis"] >>,
     recommendations |-> <<"Review the detailed findings", "Conduct further due diligence">>]

\* the inner try: the parsed object, or the fallback structure
ExtractResults(full_response, t) ==
    IF HasJsonSpan(full_response) /\ json_loads(JsonSpan(full_response)).ok
    THEN json_loads(JsonSpan(full_response)).val
    ELSE Fallback(full_response, t)

\* a slip: the metadata is set only where the payload has none
AddMetadataIfAbsent(results, entity, search_type, t) ==
    LET SetDefault(d, k, v) == IF k \in DOMAIN d THEN d ELSE Put(d, k, v)
    IN  SetDefault(SetDefault(SetDefault(results, "entity", entity), "timestamp", t),
                   "searchType", search_type)

\* results['entity'] = ...; results['timestamp'] = ...; results['searchType'] = ...
AddMetadata(results, entity, search_type, t) ==
    Put(Put(Put(results, "entity", entity), "timestamp", t), "searchType", search_type)

\* the outer except branch
ErrorResult(entity, e, t) ==
    [entity |-> entity,
     timestamp |-> t,
     riskLevel |-> "ERROR",
     summary |-> <<"Error during screening: ">> \o e,
     findings |-> <<>>,
     recommendations |-> <<"Check API key", "Verify network connection", "Try again">>]

\* perform_screening(entity, search_type, api_key) at time t, the service answering
\* with outcome: the dict returned and the requests sent
perform_screening(entity, search_type, api_key, outcome, t) ==
    LET prompt == BuildPrompt(entity, search_type)
    IN  [sent |-> SendRequests(prompt),
         results |-> IF outcome.ok
                     THEN AddMetadata(ExtractResults(ConcatText(outcome.content), t),
                                      entity, search_type, t)
                     ELSE ErrorResult(entity, outcome.error, t)]

\* ---- session state and handlers ----

\* a slip: one entry too few is kept
TruncateOneShort(h) == IF Len(h) > HistoryLimit THEN Slice(h, 0, HistoryLimit - 1) ELSE h

\* a slip: the last 10 entries are kept, which drops the newest
TruncateKeepOldest(h) ==
    IF Len(h) > HistoryLimit THEN SubSeq(h, Len(h) - HistoryLimit + 1, Len(h)) ELSE h

\* history = history[:10] when it is longer than 10
Truncate(h) == IF Len(h) > HistoryLimit THEN Slice(h, 0, HistoryLimit) ELSE h

\* st.session_state.history[:5]
Recent(h) == Slice(h, 0, RecentShown)

Init ==
    /\ history = <<>>
    /\ current_result = <<>>
    /\ now = 0
    /\ outbox = <<>>
    /\ call = <<>>

\* the Start Screening button: enabled when api_key and entity are both non-empty
Screening(entity, search_type, api_key, outcome) ==
    /\ ~(api_key = <<>> \/ entity = <<>>)
    /\ IF api_key = <<>>
       THEN UNCHANGED vars
       ELSE LET r == perform_screening(entity, search_type, api_key, outcome, now + 1)
            IN  /\ now' = now + 1
                /\ current_result' = <<r.results>>
                /\ history' = Truncate(Insert0(history, r.results))
                /\ outbox' = outbox \o [i \in 1..Len(r.sent) |->
                                           [entity |-> entity,
                                            search_type |-> search_type,
                                            request |-> r.sent[i]]]
                /\ call' = << [entity |-> entity, search_type |-> search_type,
                               api_key |-> api_key, outcome |-> outcome] >>

\* a button of Recent Screenings: history_idx
Select(idx) ==
    /\ history # <<>>
    /\ idx + 1 \in DOMAIN Recent(history)
    /\ current_result' = <<Recent(history)[idx + 1]>>
    /\ UNCHANGED <<history, now, outbox, call>>

\* ---- what the operator and the agent service may supply ----

TextBlock(text) == [type |-> "text", text |-> text]

ToolBlock == [type |-> "server_tool_use", text |-> <<>>]

\* message.content carrying the text raw: one text block, or the text cut in two
\* text blocks among tool blocks
Contents(raw) ==
    { <<TextBlock(raw)>>,
      <<ToolBlock, TextBlock(Slice(raw, 0, Len(raw) \div 2)), ToolBlock,
        TextBlock(Slice(raw, Len(raw) \div 2, Len(raw)))>> }

\* client.messages.create returned message.content
Answered(content) == [ok |-> TRUE, content |-> content, error |-> <<>>]

\* client.messages.create raised e
Raised(e) == [ok |-> FALSE, content |-> <<>>, error |-> e]

Errors == { <<"AuthenticationError">>, <<"APIConnectionError">> }

\* entity as typed in the text input: empty, blank, and two names (one with a blank)
Entities == { <<>>, <<" ">>, <<"A", "c">>, <<" ", "B">> }

\* api_key from the environment or the sidebar: absent or given
ApiKeys == { <<>>, <<"k">> }

UserEntity == <<"A", "c">>

UserKey == <<"k">>

\* the end-to-end text of the specification's scenario: a payload inside prose
ScenarioText ==
    <<"x", "{", "riskLevel:LOW", "summary:Minor complaint found", FindingsOpen, "]",
      "recommendations:[Monitor periodically]", "}", "x">>

\* one outcome of each kind: parsed, fallback, failure
SampleOutcomes ==
    { Answered(<<TextBlock(ScenarioText)>>),
      Answered(<<TextBlock(<<"x", "x">>)>>),
      Raised(<<"APIConnectionError">>) }

\* what the service does during a session: it answers the scenario text, or fails
SessionOutcomes ==
    { Answered(<<TextBlock(ScenarioText)>>),
      Raised(<<"APIConnectionError">>) }

\* every text of at most MaxLen symbols over prose, braces and two members
ShortTexts ==
    UNION { [1..n -> {"x", "{", "}", "riskLevel:HIGH", "summary:"}] : n \in 0..MaxLen }

\* payloads with each member present or absent, valid or not, inside prose or not
PayloadTexts ==
    { pre \o <<"{">> \o r \o s \o f \o c \o m \o <<"}">> \o post :
        pre \in { <<>>, <<"x">> },
        r \in { <<>>, <<"riskLevel:LOW">>, <<"riskLevel:CRITICAL">> },
        s \in { <<>>, <<"summary:">>, <<"summary:Minor complaint found">> },
        f \in { <<>>,
                <<FindingsOpen, "]">>,
                <<FindingsOpen, "{", "severity:HIGH", "category:Fraud", "}", "]">>,
                <<FindingsOpen, "{", "severity:SEVERE", "}", "{", "}", "]">>,
                <<FindingsOpen, "{", "severity:HIGH", "]">> },
        c \in { <<>>, <<"recommendations:[]">>,
                <<"recommendations:[Monitor periodically]">> },
        m \in { <<>>, <<"entity:Evil Corp">>,
                <<"entity:Evil Corp", "searchType:deep", "timestamp:1999">> },
        post \in { <<>>, <<"x">>, <<"}">> } }

Prose(n) == [i \in 1..n |-> "x"]

\* texts around the summary limit, without and with an unparsable brace span
LongTexts ==
    { Prose(n) : n \in (SummaryLimit - 1)..(SummaryLimit + 1) }
    \cup { <<"{">> \o Prose(SummaryLimit) \o <<"}">> }

ExtractOutcomes ==
    { Answered(content) :
        content \in UNION { Contents(raw) :
                              raw \in ShortTexts \cup PayloadTexts \cup LongTexts } }
    \cup { Raised(e) : e \in Errors }

\* ---- specifications ----

\* a session: screenings of one entity, and selections in Recent Screenings
StartScreening ==
    /\ now < MaxScreenings
    /\ \E outcome \in SessionOutcomes :
           Screening(UserEntity, "basic", UserKey, outcome)

SelectHistory == \E idx \in 0..(RecentShown - 1) : Select(idx)

Next == StartScreening \/ SelectHistory

Spec == Init /\ [][Next]_vars

\* a few screenings with whatever the operator may type and choose
ScreenAny ==
    /\ now < MaxRuns
    /\ \E entity \in Entities, search_type \in SearchTypes, api_key \in ApiKeys,
          outcome \in SampleOutcomes :
           Screening(entity, search_type, api_key, outcome)

NextScreen == ScreenAny \/ SelectHistory

SpecScreen == Init /\ [][NextScreen]_vars

\* one screening with whatever the agent service may answer
ExtractAny ==
    /\ now = 0
    /\ \E search_type \in SearchTypes, outcome \in ExtractOutcomes :
           Screening(UserEntity, search_type, UserKey, outcome)

NextExtract == ExtractAny

SpecExtract == Init /\ [][NextExtract]_vars

\* ---- vocabulary of the properties ----

RiskLevels == {"HIGH", "MEDIUM", "LOW", "CLEAR", "ERROR"}

Severities == {"HIGH", "MEDIUM", "LOW"}

ResultFields ==
    {"entity", "timestamp", "searchType", "riskLevel", "summary", "findings",
     "recommendations"}

\* every result the session holds: the history and the displayed result
Stored == { history[i] : i \in DOMAIN history } \cup { current_result[i] : i \in DOMAIN current_result }

RECURSIVE LStrip(_)
LStrip(s) == IF s # <<>> /\ Head(s) = " " THEN LStrip(Tail(s)) ELSE s

RECURSIVE RStrip(_)
RStrip(s) == IF s # <<>> /\ s[Len(s)] = " " THEN RStrip(SubSeq(s, 1, Len(s) - 1)) ELSE s

\* the text without its leading and trailing blanks
Trim(s) == RStrip(LStrip(s))

\* the latest invocation: its arguments, the text it received, what the scan and the
\* parser make of it, and its result (the head of the history)
Called == call # <<>>

LastRaw == ConcatText(call[1].outcome.content)

\* some "{" stands before some "}"
BracePair(raw) == \E i \in 1..Len(raw) : \E j \in (i + 1)..Len(raw) : raw[i] = "{" /\ raw[j] = "}"

\* the symbols from the first "{" to the last "}"
BraceSpan(raw) ==
    LET first == CHOOSE i \in 1..Len(raw) : raw[i] = "{" /\ \A k \in 1..(i - 1) : raw[k] # "{"
        last == CHOOSE j \in 1..Len(raw) : raw[j] = "}" /\ \A k \in (j + 1)..Len(raw) : raw[k] # "}"
    IN  SubSeq(raw, first, last)

Parses(raw) == BracePair(raw) /\ json_loads(BraceSpan(raw)).ok

Payload(raw) == json_loads(BraceSpan(raw)).val

\* ---- C1 ----
\* C1: every stored result's riskLevel is one of HIGH, MEDIUM, LOW, CLEAR, ERROR and
\* every finding's severity one of HIGH, MEDIUM, LOW, whatever the agent's payload
\* carried.  The code stores the payload's values as they are.
C1_EnumValuesOnly ==
    \A r \in Stored :
        /\ "riskLevel" \in DOMAIN r => r["riskLevel"] \in RiskLevels
        /\ "findings" \in DOMAIN r =>
               \A i \in DOMAIN r["findings"] :
                   "severity" \in DOMAIN r["findings"][i] =>
                       r["findings"][i]["severity"] \in Severities

\* ---- C2 ----
\* C2: after n screenings the history holds min(n, 10) entries, the results of the
\* most recent screenings, latest first (the entry at position i is the one stamped
\* by screening n - i + 1), pairwise distinct though of the same entity; never more
\* than 10.
C2_HistoryMostRecentFirst ==
    /\ Len(history) = Min(now, HistoryLimit)
    /\ Len(history) <= HistoryLimit
    /\ \A i \in DOMAIN history :
           /\ history[i]["timestamp"] = now - i + 1
           /\ history[i]["entity"] = UserEntity
    /\ \A i, j \in DOMAIN history : i # j => history[i] # history[j]

\* more than 10 screenings, parsed results and failures among the entries kept
C2_Witness ==
    /\ now > HistoryLimit
    /\ Len(history) = HistoryLimit
    /\ \E i, j \in DOMAIN history :
           history[i]["riskLevel"] = "ERROR" /\ history[j]["riskLevel"] = "LOW"

\* ---- C3 ----
\* C3: no request is issued, and no entry is added to the history, for an entity
\* that is empty after trimming.  The code tests the entity untrimmed.
C3_BlankEntityRejected ==
    /\ \A i \in DOMAIN outbox : Trim(outbox[i].entity) # <<>>
    /\ \A i \in DOMAIN history : Trim(history[i]["entity"]) # <<>>

\* ---- C4 ----
\* C4: every stored result has all of entity, timestamp, searchMode (the code's
\* searchType), riskLevel, summary, findings and recommendations; a parsed payload
\* that omits findings or recommendations gets the empty sequence and one that
\* omits summary the empty string.  The code adds no default and its failure result
\* carries no search type.
C4_AllFieldsPresent ==
    /\ \A r \in Stored : ResultFields \subseteq DOMAIN r
    /\ (Called /\ call[1].outcome.ok /\ Parses(LastRaw)) =>
           \A k \in {"summary", "findings", "recommendations"} :
               k \notin DOMAIN Payload(LastRaw) =>
                   (k \in DOMAIN history[1] /\ history[1][k] = <<>>)

\* ---- C5 ----
\* C5 (amended): each screening issues exactly one request; when the request fails
\* the result has riskLevel ERROR, no findings and the recommendations
\* "Check API key", "Verify network connection", "Try again".
C5_OneRequestFailureIsError ==
    /\ Len(outbox) = now
    /\ Called =>
           /\ outbox[Len(outbox)].entity = call[1].entity
           /\ outbox[Len(outbox)].search_type = call[1].search_type
    /\ (Called /\ ~call[1].outcome.ok) =>
           /\ history[1]["riskLevel"] = "ERROR"
           /\ history[1]["findings"] = <<>>
           /\ history[1]["recommendations"] =
                  <<"Check API key", "Verify network connection", "Try again">>

\* C5 as stated: the first recommendation is "Check credential"
C5_AsStated ==
    /\ Len(outbox) = now
    /\ (Called /\ ~call[1].outcome.ok) =>
           /\ history[1]["riskLevel"] = "ERROR"
           /\ history[1]["findings"] = <<>>
           /\ history[1]["recommendations"] =
                  <<"Check credential", "Verify network connection", "Try again">>

\* a second screening whose request failed
C5_Witness ==
    /\ Called
    /\ now > 1
    /\ ~call[1].outcome.ok
    /\ history[1]["riskLevel"] = "ERROR"

\* ---- C6 ----
\* C6: whenever the agent answered, the result's entity, search type and timestamp
\* are the caller's, also when the payload supplied its own.
C6_MetadataFromCaller ==
    (Called /\ call[1].outcome.ok) =>
        /\ history[1]["entity"] = call[1].entity
        /\ history[1]["searchType"] = call[1].search_type
        /\ history[1]["timestamp"] = now

\* a parsed payload that supplied another entity, search type and timestamp
C6_Witness ==
    /\ Called
    /\ call[1].outcome.ok
    /\ Parses(LastRaw)
    /\ {"entity", "searchType", "timestamp"} \subseteq DOMAIN Payload(LastRaw)
    /\ Payload(LastRaw)["entity"] # call[1].entity
    /\ Payload(LastRaw)["searchType"] # call[1].search_type
    /\ history[1]["entity"] = call[1].entity

\* ---- C7 ----
\* C7: the prompt of a comprehensive screening contains the expanded term set, and
\* the prompts of the two modes for the same entity differ.  The code computes the
\* hint and leaves it out of the prompt.
C7_PromptDependsOnMode ==
    /\ \A i \in DOMAIN outbox :
           outbox[i].search_type = "comprehensive" =>
               \E k \in DOMAIN outbox[i].request.prompt :
                   outbox[i].request.prompt[k] =
                       "controversy scandal investigation lawsuit sanction fine penalty fraud"
    /\ \A i, j \in DOMAIN outbox :
           (outbox[i].entity = outbox[j].entity
            /\ outbox[i].search_type # outbox[j].search_type) =>
               outbox[i].request.prompt # outbox[j].request.prompt

\* ---- C8 ----
\* C8 (amended): after 15 screenings the history has exactly 10 entries, the 15th
\* result at position 0, and the 5 oldest results evicted (the 6th to the 15th kept).
C8_FifteenAppends ==
    now = 15 =>
        /\ Len(history) = 10
        /\ history[1]["timestamp"] = 15
        /\ { history[i]["timestamp"] : i \in DOMAIN history } = 6..15

\* C8 as stated: the 6 oldest results are evicted
C8_AsStated ==
    now = 15 =>
        /\ Len(history) = 10
        /\ history[1]["timestamp"] = 15
        /\ \A i \in DOMAIN history : history[i]["timestamp"] \notin 1..6

\* fifteen screenings done
C8_Witness ==
    /\ now = 15
    /\ Len(history) = 10
    /\ history[10]["timestamp"] = 6

\* ---- C9 ----
\* C9: when the agent's text has no "{" before a "}" or the span from the first "{"
\* to the last "}" does not parse, the result is the fallback: riskLevel MEDIUM, one
\* finding (General, MEDIUM), the two fixed recommendations, the summary the first
\* 300 symbols of the text and the description the whole text, or the placeholders
\* when the text is empty; neither is empty, and the result is no ERROR result.
C9_FallbackWellFormed ==
    (Called /\ call[1].outcome.ok /\ ~Parses(LastRaw)) =>
        LET r == history[1]
            raw == LastRaw
        IN  /\ r["riskLevel"] = "MEDIUM"
            /\ Len(r["findings"]) = 1
            /\ r["findings"][1]["category"] = "General"
            /\ r["findings"][1]["severity"] = "MEDIUM"
            /\ r["recommendations"] =
                   <<"Review the detailed findings", "Conduct further due diligence">>
            /\ r["summary"] # <<>>
            /\ r["findings"][1]["description"] # <<>>
            /\ raw = <<>> =>
                   /\ r["summary"] = <<"Unable to parse response">>
                   /\ r["findings"][1]["description"] = <<"No detailed findings available">>
            /\ raw # <<>> =>
                   /\ Len(r["summary"]) = Min(Len(raw), SummaryLimit)
                   /\ \A i \in DOMAIN r["summary"] : r["summary"][i] = raw[i]
                   /\ r["findings"][1]["description"] = raw

\* a text longer than the limit, with a brace span that does not parse
C9_Witness ==
    /\ Called
    /\ call[1].outcome.ok
    /\ BracePair(LastRaw)
    /\ ~Parses(LastRaw)
    /\ Len(LastRaw) > SummaryLimit
    /\ Len(history[1]["summary"]) = SummaryLimit

\* ---- C10 ----
\* C10: the displayed result is unset exactly when the history is empty and is
\* otherwise an entry of the history; a screening sets it to the new entry at
\* position 0; a selection sets it to one of the first 5 entries and leaves the
\* history as it is.
DisplayedInHistory ==
    /\ current_result = <<>> <=> history = <<>>
    /\ current_result # <<>> => \E i \in DOMAIN history : history[i] = current_result[1]

C10_DisplayedResultInHistory ==
    [][/\ DisplayedInHistory
       /\ DisplayedInHistory'
       /\ now' # now =>
              /\ history'[1]["timestamp"] = now'
              /\ current_result' = <<history'[1]>>
       /\ now' = now =>
              /\ history' = history
              /\ \E i \in 1..Min(RecentShown, Len(history)) :
                     current_result' = <<history[i]>>]_vars

\* after evictions, the fifth entry is selected
C10_Witness ==
    /\ now > HistoryLimit
    /\ Len(history) = HistoryLimit
    /\ current_result = <<history[RecentShown]>>

====
